---- MODULE Spec2Model ----
(***************************************************************************)
(* Model of the job-finder bot: the durable store of db.py, the source     *)
(* adapters of sources.py, and the two callers of job_finder_bot.py, the   *)
(* poll loop poll_saved_searches and the interactive search findjob.       *)
(***************************************************************************)
EXTENDS Integers, Sequences, FiniteSets, Bags, TLC

(* ------------------------------ bounds -------------------------------- *)
MaxSearches == 2          \* saved searches ever created (serial ids 1..MaxSearches)
MaxPage == 2              \* listings on one upstream page
MaxLimit == 2             \* largest limit an adapter is called with on its own

(* ------------------------- program constants -------------------------- *)
MAX_RESULTS == 10         \* limit findjob passes to every adapter
POLL_LIMIT == 10          \* limit poll_saved_searches passes to every adapter
TEXT_LIMIT == 5           \* limit the text command !findjob passes to remotive
JOBS_PER_PAGE == 3        \* jobs on one page of the result message
MaxJobs == 7              \* jobs in the result list a view is created with
MaxClicks == 2            \* button interactions in flight at one time

(* --------------------------- value universes -------------------------- *)
Bots == {1, 2}            \* bot processes that may share one database
Users == {1, 2}           \* users issuing commands
Owners == {1}             \* users who save searches
JobIds == {"a", "b"}      \* unique ids of upstream postings
WatchedJob == "a"         \* the posting the counters follow (the ids are interchangeable)

\* The listings a source may carry.  a and b are complete postings that
\* contain the query; each of the others lacks something.  A field that is
\* missing, null or the empty string is "" (all are falsy in the code).
RawItems == JobIds \cup {"noid", "nourl", "notitle", "nulltitle", "bare", "other"}

Listing(id, url, title, company, has_title, query) ==
    [id |-> id, url |-> url, title |-> title, company |-> company,
     has_title |-> has_title, query |-> query]

\* The fields of a listing: its source-native id, its link, its title and
\* company, whether it has a title key (a title element) at all, and
\* whether the query occurs in its title or company.
Item(i) ==
    CASE i = "a" -> Listing("1", "/a", "ta", "ca", TRUE, TRUE)
      [] i = "b" -> Listing("2", "/b", "tb", "cb", TRUE, TRUE)
      [] i = "noid" -> Listing("", "/n", "tn", "cn", TRUE, TRUE)
      [] i = "nourl" -> Listing("3", "", "tu", "cu", TRUE, TRUE)
      [] i = "notitle" -> Listing("4", "/t", "", "ct", FALSE, TRUE)
      [] i = "nulltitle" -> Listing("5", "/e", "", "ce", TRUE, TRUE)
      [] i = "bare" -> Listing("", "", "tr", "cr", TRUE, TRUE)
      [] OTHER -> Listing("6", "/o", "to", "co", TRUE, FALSE)

\* A source selector is the list of its colon-separated segments:
\* "remotive" is <<"remotive">>, "rss:u" is <<"rss", "u">>, None and "" are <<>>.
NoSource == <<>>
AdapterNames == {"remotive", "remoteok", "onlinejobs", "weworkremotely",
                 "flexjobs", "jobstreet", "upwork"}
NamedSources == {<<n>> : n \in AdapterNames}
PollSources == {<<"remoteok">>}    \* sources the modelled owners save searches with
FindSources == NamedSources \cup {NoSource, <<"bogus">>, <<"rss", "u">>}
DEFAULT_SOURCE == <<"remotive">>   \* findjob's source when the option is left out
Omitted == <<"", "omitted">>       \* a findjob command without the source option

Min(a, b) == IF a <= b THEN a ELSE b

\* Sequences over S of length at most n.
RECURSIVE SeqsUpTo(_, _)
SeqsUpTo(S, n) ==
    IF n = 0 THEN {<<>>}
    ELSE LET shorter == SeqsUpTo(S, n - 1)
         IN  shorter \cup {Append(q, x) : q \in {t \in shorter : Len(t) = n - 1}, x \in S}

Pages == SeqsUpTo(JobIds, MaxPage)

\* What the network gives one request: a transport failure, a non-2xx
\* status, or a 200 payload.  page lists the payload's listings in order
\* (JSON items, feed entries, listing elements of the markup); alt lists
\* the listing elements written in the site's other markup variant.
Responses ==
    [status : {"timeout", "http_error"}, page : {<<>>}, alt : {<<>>}]
    \cup [status : {"ok"}, page : Pages, alt : {<<>>}]
    \cup [status : {"ok"}, page : {<<>>}, alt : Pages \ {<<>>}]

Take(q, n) == SubSeq(q, 1, Min(Len(q), IF n < 0 THEN 0 ELSE n))

\* What a call of an adapter gives its caller: a list, or an exception.
Returned(js) == [raised |-> FALSE, error |-> "none", jobs |-> js]
Raised(kind) == [raised |-> TRUE, error |-> kind, jobs |-> <<>>]

(* ------------------------------ adapters ------------------------------ *)
\* An adapter is modelled in two parts: fetch_jobs_x gives the listings it
\* turns into records, in order, or the exception it raises; x_record
\* builds the record of one listing.

\* A listing element that an HTML pattern with a link group and a title
\* group matches; the title text itself may be empty.
html_match(i) == Item(i).url # "" /\ Item(i).has_title

\* A listing element the anchor-wrapping pattern matches.
outer_match(i) == Item(i).url # ""

\* sources.py fetch_jobs_remotive: aiohttp.ClientError (a non-2xx status
\* via raise_for_status) is caught; the total-timeout asyncio.TimeoutError
\* is not a ClientError and escapes.
fetch_jobs_remotive(r, limit) ==
    CASE r.status = "http_error" -> Returned(<<>>)
      [] r.status = "timeout" -> Raised("TimeoutError")
      [] OTHER -> Returned(Take(r.page, limit))

\* sources.py fetch_jobs_remoteok: no try block at all; the loop skips
\* (`continue`) an item without id, appends an item that contains the
\* query, and only then tests len(jobs) >= limit.
RECURSIVE RemoteokLoop(_, _, _)
RemoteokLoop(items, jobs, limit) ==
    IF items = <<>> THEN jobs
    ELSE IF Item(Head(items)).id = "" THEN RemoteokLoop(Tail(items), jobs, limit)
    ELSE LET js == IF Item(Head(items)).query THEN Append(jobs, Head(items)) ELSE jobs
         IN  IF Len(js) >= limit THEN js ELSE RemoteokLoop(Tail(items), js, limit)

fetch_jobs_remoteok(r, limit) ==
    IF r.status = "http_error" THEN Raised("ClientResponseError")
    ELSE IF r.status = "timeout" THEN Raised("TimeoutError")
    ELSE Returned(RemoteokLoop(r.page, <<>>, limit))

\* sources.py fetch_jobs_weworkremotely: jobs.append sits after the for
\* loop, so it runs once, with the variables of the last match; when the
\* loop body never assigned them the append raises NameError.
fetch_jobs_weworkremotely(r, limit) ==
    LET matches == SelectSeq(r.page, html_match)
    IN  IF r.status # "ok" THEN Returned(<<>>)
        ELSE IF matches = <<>> \/ limit <= 0 THEN Raised("NameError")
        ELSE Returned(<<matches[Len(matches)]>>)

\* sources.py fetch_jobs_flexjobs, fetch_jobs_jobstreet, fetch_jobs_upwork:
\* every failure is caught and gives the empty list.
fetch_jobs_flexjobs(r, limit) ==
    IF r.status # "ok" THEN Returned(<<>>)
    ELSE Returned(Take(SelectSeq(r.page, html_match), limit))

fetch_jobs_jobstreet(r, limit) ==
    IF r.status # "ok" THEN Returned(<<>>) ELSE Returned(Take(r.page, limit))

\* `if not job_id or not job_title: continue`, inside `for job in job_list[:limit]`;
\* job_title is job.get('title', 'Untitled').
upwork_keeps(i) == Item(i).id # "" /\ (Item(i).title # "" \/ ~Item(i).has_title)

fetch_jobs_upwork(r, limit) ==
    IF r.status # "ok" THEN Returned(<<>>)
    ELSE Returned(Take(SelectSeq(Take(r.page, limit), upwork_keeps), limit))

\* The requests one call of fetch_jobs_upwork sends, in order: the single
\* session.get of the search page https://www.upwork.com/nx/search/jobs/,
\* whatever it answers.  "feed" would be a request of a feed, "page" is the
\* request of the search page.
upwork_requests(r) == <<"page">>

\* sources.py fetch_jobs_rss: raise_for_status=True and no try block.
fetch_jobs_rss(r, limit) ==
    IF r.status = "http_error" THEN Raised("ClientResponseError")
    ELSE IF r.status = "timeout" THEN Raised("TimeoutError")
    ELSE Returned(Take(r.page, limit))

\* sources.py fetch_jobs_onlinejobs: the old pattern first, the
\* anchor-wrapping pattern only when the old one matches nothing.
\* matches = list(job_pattern_old.finditer(html)); use_outer is set when
\* the old pattern matched nothing and the outer pattern matched something.
onlinejobs_old(r) == SelectSeq(r.page, html_match)
onlinejobs_outer(r) == SelectSeq(r.alt, outer_match)
use_outer(r) == onlinejobs_old(r) = <<>> /\ onlinejobs_outer(r) # <<>>

\* (variant for C20: the anchor-wrapping pattern is tried first)
fetch_jobs_onlinejobs_outer_first(r, limit) ==
    IF r.status # "ok" THEN Returned(<<>>)
    ELSE LET matches == IF onlinejobs_outer(r) # <<>> THEN onlinejobs_outer(r)
                        ELSE onlinejobs_old(r)
         IN  Returned(Take(matches, limit))

fetch_jobs_onlinejobs(r, limit) ==
    IF r.status # "ok" THEN Returned(<<>>)
    ELSE LET matches == IF onlinejobs_old(r) # <<>> THEN onlinejobs_old(r)
                        ELSE onlinejobs_outer(r)
         IN  Returned(Take(matches, limit))

Invoke(name, r, limit) ==
    CASE name = "remotive" -> fetch_jobs_remotive(r, limit)
      [] name = "remoteok" -> fetch_jobs_remoteok(r, limit)
      [] name = "weworkremotely" -> fetch_jobs_weworkremotely(r, limit)
      [] name = "onlinejobs" -> fetch_jobs_onlinejobs(r, limit)
      [] name = "flexjobs" -> fetch_jobs_flexjobs(r, limit)
      [] name = "jobstreet" -> fetch_jobs_jobstreet(r, limit)
      [] name = "upwork" -> fetch_jobs_upwork(r, limit)
      [] OTHER -> fetch_jobs_rss(r, limit)

(* ------------------------- normalised records ------------------------- *)
\* hashlib.md5(text.encode()).hexdigest(): a non-empty digest of the text.
Md5(text) == "md5(" \o text \o ")"

JobRecord(unique_id, title, url, raw) ==
    [unique_id |-> unique_id, title |-> title, url |-> url, raw |-> raw]

\* `a or b or c` over strings.
Or3(a, b, c) == IF a # "" THEN a ELSE IF b # "" THEN b ELSE c

\* job.get('title', 'Untitled'): the default only when the key is missing.
TitleOrUntitled(i) == IF Item(i).has_title THEN Item(i).title ELSE "Untitled"

\* sources.py fetch_jobs_remotive, the normalisation loop.
remotive_record(i) ==
    LET j == Item(i)
    IN  JobRecord(Or3(j.id, j.url, Md5(j.title \o j.company)), j.title, j.url, i)

\* sources.py fetch_jobs_remoteok, the dict appended to jobs.
remoteok_record(i) ==
    LET item == Item(i)
    IN  JobRecord(Or3(item.id, item.url, Md5(item.title)), item.title,
                  "https://remoteok.com" \o item.url, i)

\* sources.py fetch_jobs_rss, the dict appended to results.
rss_record(i) ==
    LET e == Item(i)
    IN  JobRecord(Or3(e.id, e.url, Md5(e.title \o e.url)), e.title, e.url, i)

\* The HTML adapters: unique_id = hashlib.md5(full_url.encode()).hexdigest().
weworkremotely_record(i) ==
    LET full_url == "https://weworkremotely.com" \o Item(i).url
    IN  JobRecord(Md5(full_url), Item(i).title, full_url, i)

flexjobs_record(i) ==
    LET full_url == "https://www.flexjobs.com" \o Item(i).url
    IN  JobRecord(Md5(full_url), Item(i).title, full_url, i)

jobstreet_record(i) ==
    LET full_url == "https://www.jobstreet.com.ph/job/" \o Item(i).id
    IN  JobRecord(Md5(full_url), TitleOrUntitled(i), full_url, i)

upwork_record(i) ==
    LET full_url == "https://www.upwork.com/jobs/" \o Item(i).id
    IN  JobRecord(Md5(full_url), TitleOrUntitled(i), full_url, i)

\* fetch_jobs_onlinejobs: the old pattern's title group, or under the outer
\* pattern the h3/h4 of the inner markup, "Untitled" when there is none.
onlinejobs_record(i, outer) ==
    LET full_url == "https://www.onlinejobs.ph" \o Item(i).url
    IN  JobRecord(Md5(full_url), IF outer THEN TitleOrUntitled(i) ELSE Item(i).title,
                  full_url, i)

RecordOf(name, i, r) ==
    CASE name = "remotive" -> remotive_record(i)
      [] name = "remoteok" -> remoteok_record(i)
      [] name = "weworkremotely" -> weworkremotely_record(i)
      [] name = "onlinejobs" -> onlinejobs_record(i, use_outer(r))
      [] name = "flexjobs" -> flexjobs_record(i)
      [] name = "jobstreet" -> jobstreet_record(i)
      [] name = "upwork" -> upwork_record(i)
      [] OTHER -> rss_record(i)

\* What a call of adapter `name` returns to its caller: the list of records.
FetchRecords(name, r, limit) ==
    LET out == Invoke(name, r, limit)
    IN  IF out.raised THEN out
        ELSE Returned([k \in 1..Len(out.jobs) |-> RecordOf(name, out.jobs[k], r)])


(* ------------------------------- state -------------------------------- *)
VARIABLES
    bots,            \* the bot processes running against the database
    saved_search,    \* table saved_search: rows [id, user_id, source]
    nextId,          \* the serial of saved_search.id
    seen_job,        \* table seen_job: bag of <<search_id, job_unique_id>> rows
    pool,            \* db.pool of each bot: FALSE is None
    loops,           \* live tasks of the loop poll_saved_searches, per bot
    lastReady,       \* what the last on_ready of each bot did about the loop
    pc,              \* where each bot's poll loop stands
    searches,        \* poll_saved_searches: the rows loaded by this cycle
    si,              \* index of the search the cycle is at; Len + 1 when through
    jobs,            \* the job list fetched for that search
    ji,              \* index of the job the cycle is at
    skipped,         \* ids of the searches this cycle skipped on a fetcher error
    abortCause,      \* the exception that ended the last cycle, or "none"
    watch,           \* the <<search_id, job_unique_id>> pair the counters follow
    sent,            \* notifications delivered for the pair watch
    markTrue,        \* times mark_job_seen returned True for the pair watch
    markFalse,       \* whether mark_job_seen ever returned False for the pair watch
    fjPc,            \* findjob: "idle", "call" or "done"
    fjSource,        \* findjob: the source selector of the command
    fjCalls,         \* findjob: the adapters invoked so far, in order
    fjResps,         \* findjob: what the network gave each of those calls
    fjJobs,          \* findjob: the job list held
    fjOutcome,       \* findjob: what was reported to the user
    fjOffered,       \* the source options the users run findjob with
    adCall,          \* a direct adapter call: [name, resp, limit]
    adOut,           \* what that call gave, error "pending" before it ran
    dbCall,          \* a direct call of a db.py function: [op, id, user, job]
    dbRet,           \* what that call returned: "true", "false", "raise", "id"
    cascaded,        \* seen_job rows those calls deleted through ON DELETE CASCADE
    view,            \* the JobPaginationView of the posted result message
    shown,           \* the buttons' disabled flags as that message shows them
    clicks           \* button interactions sent and not yet handled

dbVars == <<saved_search, nextId, seen_job>>
loopVars == <<pool, loops, lastReady>>
cycleVars == <<pc, searches, si, jobs, ji, skipped, abortCause>>
histVars == <<watch, sent, markTrue, markFalse>>
fjVars == <<fjPc, fjSource, fjCalls, fjResps, fjJobs, fjOutcome>>
callVars == <<adCall, adOut, dbCall, dbRet, cascaded>>
viewVars == <<view, shown, clicks>>
vars == <<bots, fjOffered, dbVars, loopVars, cycleVars, histVars, fjVars, callVars,
          viewVars>>

InitBot ==
    /\ pool = [b \in Bots |-> FALSE]
    /\ loops = [b \in Bots |-> 0]
    /\ lastReady = [b \in Bots |-> "none"]
    /\ pc = [b \in Bots |-> "stopped"]
    /\ searches = [b \in Bots |-> <<>>]
    /\ si = [b \in Bots |-> 1]
    /\ jobs = [b \in Bots |-> <<>>]
    /\ ji = [b \in Bots |-> 1]
    /\ skipped = [b \in Bots |-> {}]
    /\ abortCause = [b \in Bots |-> "none"]
    /\ watch \in (1..MaxSearches) \X {WatchedJob}
    /\ sent = 0
    /\ markTrue = 0
    /\ markFalse = FALSE

InitFind ==
    /\ fjPc = "idle"
    /\ fjSource = NoSource
    /\ fjCalls = <<>>
    /\ fjResps = <<>>
    /\ fjJobs = <<>>
    /\ fjOutcome = "none"

InitDb ==
    /\ saved_search = {}
    /\ nextId = 1
    /\ seen_job = EmptyBag

NoResponse == [status |-> "timeout", page |-> <<>>, alt |-> <<>>]
NoAdapterCall == [name |-> "none", resp |-> NoResponse, limit |-> 0]
Pending == [raised |-> FALSE, error |-> "pending", jobs |-> <<>>]
NoDbCall == [op |-> "none", id |-> 0, user |-> 0, job |-> ""]

\* No result message with buttons has been posted.
NoView == [jobs |-> <<>>, page |-> 0, author_id |-> 0,
           prev_disabled |-> TRUE, next_disabled |-> TRUE]
InitView ==
    /\ view = NoView
    /\ shown = [prev |-> TRUE, next |-> TRUE]
    /\ clicks = <<>>

\* No adapter and no db.py function has been called on its own.
InitCalls ==
    /\ adCall = NoAdapterCall
    /\ adOut = Pending
    /\ dbCall = NoDbCall
    /\ dbRet = "none"
    /\ cascaded = 0

Init ==
    /\ bots = {1}
    /\ fjOffered = FindSources \cup {Omitted}
    /\ InitDb /\ InitBot /\ InitFind /\ InitCalls /\ InitView

(* ------------------------------- db.py -------------------------------- *)
\* add_saved_search: INSERT ... RETURNING id; the serial never repeats.
add_saved_search(user_id, source) ==
    /\ nextId <= MaxSearches
    /\ saved_search' = saved_search \cup {[id |-> nextId, user_id |-> user_id, source |-> source]}
    /\ nextId' = nextId + 1
    /\ UNCHANGED seen_job

\* (variant for C18: the foreign key without ON DELETE CASCADE)
Cascade_keeps(seen, gone) == seen

\* The seen_job rows left after deleting the saved_search rows in gone
\* (search_id ... REFERENCES saved_search(id) ON DELETE CASCADE).
Cascade(seen, gone) ==
    LET keep == {pr \in DOMAIN seen : pr[1] \notin gone}
    IN  [pr \in keep |-> seen[pr]]

\* (variant for C17: DELETE ... WHERE id = $1, whoever the user is)
remove_saved_search_any_user(search_id, user_id) ==
    LET hit == {row \in saved_search : row.id = search_id}
    IN  /\ saved_search' = saved_search \ hit
        /\ seen_job' = Cascade(seen_job, {row.id : row \in hit})
        /\ UNCHANGED nextId

\* remove_saved_search: DELETE ... WHERE id = $1 AND user_id = $2.
remove_saved_search(search_id, user_id) ==
    LET hit == {row \in saved_search : row.id = search_id /\ row.user_id = user_id}
    IN  /\ saved_search' = saved_search \ hit
        /\ seen_job' = Cascade(seen_job, {row.id : row \in hit})
        /\ UNCHANGED nextId

\* `return result.split()[-1] != "0"`: whether the DELETE removed a row.
remove_result(search_id, user_id) ==
    \E row \in saved_search : row.id = search_id /\ row.user_id = user_id

\* (variant for C25: seen_job unique on job_unique_id alone)
InsertOutcome_job_key(search_id, job_id) ==
    IF search_id \notin {row.id : row \in saved_search} THEN "fk_violation"
    ELSE IF \E pr \in BagToSet(seen_job) : pr[2] = job_id THEN "unique_violation"
    ELSE "inserted"

\* (variant for C3: seen_job without its UNIQUE constraint)
InsertOutcome_no_unique(search_id, job_id) ==
    IF search_id \notin {row.id : row \in saved_search} THEN "fk_violation"
    ELSE "inserted"

\* The outcome of the INSERT of mark_job_seen: the foreign key rejects a
\* search id with no saved_search row, UNIQUE(search_id, job_unique_id)
\* rejects a pair already stored.
InsertOutcome(search_id, job_id) ==
    IF search_id \notin {row.id : row \in saved_search} THEN "fk_violation"
    ELSE IF BagIn(<<search_id, job_id>>, seen_job) THEN "unique_violation"
    ELSE "inserted"

\* (variant for C1: the duplicate is reported as newly seen)
mark_job_seen_dup_true(search_id, job_id) ==
    IF search_id \notin {row.id : row \in saved_search} THEN "raise" ELSE "true"

\* (variant for C2: UniqueViolationError is not caught)
mark_job_seen_no_except(search_id, job_id) ==
    IF search_id \in {row.id : row \in saved_search}
       /\ ~BagIn(<<search_id, job_id>>, seen_job)
    THEN "true" ELSE "raise"

\* mark_job_seen: True on insert, False on UniqueViolationError, any other
\* error escapes.
mark_job_seen(search_id, job_id) ==
    LET o == InsertOutcome(search_id, job_id)
    IN  CASE o = "inserted" -> "true"
          [] o = "unique_violation" -> "false"
          [] OTHER -> "raise"

\* get_all_saved_searches: SELECT * FROM saved_search ORDER BY created_at.
RECURSIVE OrderByCreated(_)
OrderByCreated(rows) ==
    IF rows = {} THEN <<>>
    ELSE LET first == CHOOSE r \in rows : \A q \in rows : r.id <= q.id
         IN  <<first>> \o OrderByCreated(rows \ {first})

get_all_saved_searches == OrderByCreated(saved_search)

(* ----------------------- poll_saved_searches -------------------------- *)
\* source.startswith("rss:"): the selector has a first segment rss and a
\* colon after it; the feed url is the rest, source.split(":", 1)[1].
IsRss(source) == Len(source) >= 2 /\ source[1] = "rss"

\* The fetcher the poll cycle chooses for a stored source (the if/elif
\* chain of poll_saved_searches, after `s["source"] or "remotive"`).
PollAdapter(source) ==
    LET src == IF source = NoSource THEN <<"remotive">> ELSE source
    IN  IF src \in NamedSources THEN src[1]
        ELSE IF IsRss(src) THEN "rss"
        ELSE "remotive"

\* The adapters the poll cycle invokes for a stored source: the one its
\* if/elif chain chooses, with no `if not jobs:` step after it.
PollChain(source) == <<PollAdapter(source)>>

\* (variant for C7: on_ready without its is_running test)
never_running(b) == FALSE

\* poll_saved_searches.is_running(): the loop has a task that has not ended.
is_running(b) == loops[b] > 0

\* on_ready: init_db (its failure is logged and swallowed), then
\* `if not poll_saved_searches.is_running(): poll_saved_searches.start()`.
\* start() runs the loop in a new task: the locals of an ended cycle are gone.
on_ready(b) ==
    /\ b \in bots
    /\ \E dbUp \in BOOLEAN : pool' = [pool EXCEPT ![b] = pool[b] \/ dbUp]
    /\ IF ~is_running(b)
       THEN /\ loops' = [loops EXCEPT ![b] = loops[b] + 1]
            /\ pc' = [pc EXCEPT ![b] = "idle"]
            /\ lastReady' = [lastReady EXCEPT ![b] = "started"]
            /\ searches' = [searches EXCEPT ![b] = <<>>]
            /\ si' = [si EXCEPT ![b] = 1]
            /\ jobs' = [jobs EXCEPT ![b] = <<>>]
            /\ ji' = [ji EXCEPT ![b] = 1]
            /\ skipped' = [skipped EXCEPT ![b] = {}]
            /\ abortCause' = [abortCause EXCEPT ![b] = "none"]
       ELSE /\ lastReady' = [lastReady EXCEPT ![b] = "running"]
            /\ UNCHANGED <<loops, pc, searches, si, jobs, ji, skipped, abortCause>>
    /\ UNCHANGED <<bots, fjOffered, viewVars, callVars, dbVars, histVars, fjVars>>

\* An exception that leaves the body of poll_saved_searches ends the loop
\* task: is_running() is false from then on.
Abort(b, cause) ==
    /\ pc' = [pc EXCEPT ![b] = "stopped"]
    /\ loops' = [loops EXCEPT ![b] = loops[b] - 1]
    /\ abortCause' = [abortCause EXCEPT ![b] = cause]

\* `for s in searches`: on to the next loaded search, or the cycle is over.
NextSearch(b) ==
    /\ si' = [si EXCEPT ![b] = si[b] + 1]
    /\ pc' = [pc EXCEPT ![b] = IF si[b] < Len(searches[b]) THEN "fetch" ELSE "idle"]
    /\ jobs' = [jobs EXCEPT ![b] = <<>>]
    /\ ji' = [ji EXCEPT ![b] = 1]

\* `for j in jobs`: on to the next job of this search, or to the next search.
NextJob(b) ==
    IF ji[b] < Len(jobs[b])
    THEN /\ ji' = [ji EXCEPT ![b] = ji[b] + 1]
         /\ pc' = [pc EXCEPT ![b] = "mark"]
         /\ UNCHANGED <<si, jobs>>
    ELSE NextSearch(b)

\* The timer fires: searches = await get_all_saved_searches(); return when
\* there are none.  With db.pool still None the call raises.
CycleStart(b) ==
    /\ b \in bots
    /\ pc[b] = "idle"
    /\ skipped' = [skipped EXCEPT ![b] = {}]
    /\ si' = [si EXCEPT ![b] = 1]
    /\ jobs' = [jobs EXCEPT ![b] = <<>>]
    /\ ji' = [ji EXCEPT ![b] = 1]
    /\ IF ~pool[b]
       THEN /\ Abort(b, "store_uninitialised")
            /\ searches' = [searches EXCEPT ![b] = <<>>]
       ELSE /\ searches' = [searches EXCEPT ![b] = get_all_saved_searches]
            /\ abortCause' = [abortCause EXCEPT ![b] = "none"]
            /\ pc' = [pc EXCEPT ![b] =
                        IF get_all_saved_searches = <<>> THEN "idle" ELSE "fetch"]
            /\ UNCHANGED loops
    /\ UNCHANGED <<bots, fjOffered, viewVars, callVars, dbVars, pool, lastReady, histVars, fjVars>>

\* (variant for C4: no try block around the fetcher call)
OnFetcherErrorEscapes(b, s) ==
    /\ skipped' = [skipped EXCEPT ![b] = @ \cup {s.id}]
    /\ Abort(b, "fetcher_error")
    /\ UNCHANGED <<si, jobs, ji>>

\* `except Exception as e: print(...); continue`
OnFetcherError(b, s) ==
    /\ skipped' = [skipped EXCEPT ![b] = @ \cup {s.id}]
    /\ NextSearch(b)
    /\ UNCHANGED <<loops, abortCause>>

\* What the chosen fetcher can give the cycle for search row s.
FetchOutcomes(s) == {Invoke(PollAdapter(s.source), r, POLL_LIMIT) : r \in Responses}

\* "choose fetcher": the try block around the adapter call; any exception
\* is printed and the loop continues with the next search.
PollFetch(b) ==
    /\ b \in bots
    /\ pc[b] = "fetch"
    /\ LET s == searches[b][si[b]]
       IN  \E out \in FetchOutcomes(s) :
             IF out.raised
             THEN OnFetcherError(b, s)
             ELSE IF out.jobs = <<>>
             THEN /\ NextSearch(b)
                  /\ UNCHANGED <<skipped, loops, abortCause>>
             ELSE /\ jobs' = [jobs EXCEPT ![b] = out.jobs]
                  /\ ji' = [ji EXCEPT ![b] = 1]
                  /\ pc' = [pc EXCEPT ![b] = "mark"]
                  /\ UNCHANGED <<si, skipped, loops, abortCause>>
    /\ UNCHANGED <<bots, fjOffered, viewVars, callVars, dbVars, pool, lastReady, searches, histVars, fjVars>>

\* The pair the cycle of bot b is at.
CurrentPair(b) == <<searches[b][si[b]].id, jobs[b][ji[b]]>>

\* new = await mark_job_seen(sid, str(unique_id))
PollMark(b) ==
    /\ b \in bots
    /\ pc[b] = "mark"
    /\ LET pair == CurrentPair(b)
           new == mark_job_seen(pair[1], pair[2])
       IN  /\ seen_job' = IF InsertOutcome(pair[1], pair[2]) = "inserted"
                          THEN seen_job (+) SetToBag({pair}) ELSE seen_job
           /\ markTrue' = IF new = "true" /\ pair = watch THEN markTrue + 1 ELSE markTrue
           /\ markFalse' = (markFalse \/ (new = "false" /\ pair = watch))
           /\ CASE new = "true" ->
                     /\ pc' = [pc EXCEPT ![b] = "notify"]
                     /\ UNCHANGED <<si, jobs, ji, abortCause, loops>>
                [] new = "false" ->
                     /\ NextJob(b)
                     /\ UNCHANGED <<abortCause, loops>>
                [] OTHER ->
                     /\ Abort(b, "fk_violation")
                     /\ UNCHANGED <<si, jobs, ji>>
    /\ UNCHANGED <<bots, fjOffered, viewVars, callVars, saved_search, nextId, pool, lastReady, searches,
                   skipped, watch, sent, fjVars>>

\* user = await bot.fetch_user(user_id); if user: try: await user.send(...)
\* except Exception: pass.  Only the send is inside the try block.
Deliveries == {"sent", "send_failed", "no_user", "lookup_raised"}

\* (variant for C22: an undelivered notification takes its seen record back)
PollNotify_unmarks(b) ==
    /\ b \in bots
    /\ pc[b] = "notify"
    /\ \E d \in Deliveries :
         /\ sent' = IF d = "sent" /\ CurrentPair(b) = watch THEN sent + 1 ELSE sent
         /\ seen_job' = IF d = "sent" THEN seen_job
                        ELSE seen_job (-) SetToBag({CurrentPair(b)})
         /\ IF d = "lookup_raised"
            THEN /\ Abort(b, "lookup_failed")
                 /\ UNCHANGED <<si, jobs, ji>>
            ELSE /\ NextJob(b)
                 /\ UNCHANGED <<abortCause, loops>>
    /\ UNCHANGED <<bots, fjOffered, viewVars, callVars, saved_search, nextId, pool, lastReady,
                   searches, skipped, watch, markTrue, markFalse, fjVars>>

PollNotify(b) ==
    /\ b \in bots
    /\ pc[b] = "notify"
    /\ \E d \in Deliveries :
         /\ sent' = IF d = "sent" /\ CurrentPair(b) = watch THEN sent + 1 ELSE sent
         /\ IF d = "lookup_raised"
            THEN /\ Abort(b, "lookup_failed")
                 /\ UNCHANGED <<si, jobs, ji>>
            ELSE /\ NextJob(b)
                 /\ UNCHANGED <<abortCause, loops>>
    /\ UNCHANGED <<bots, fjOffered, viewVars, callVars, dbVars, pool, lastReady, searches, skipped,
                   watch, markTrue, markFalse, fjVars>>

(* ------------------------- the owners' commands ----------------------- *)
AddSavedSearch ==
    /\ \E u \in Owners, src \in PollSources : add_saved_search(u, src)
    /\ UNCHANGED <<bots, fjOffered, viewVars, callVars, loopVars, cycleVars, histVars, fjVars>>

RemoveSavedSearch ==
    /\ \E id \in {row.id : row \in saved_search}, u \in Users :
         remove_saved_search(id, u)
    /\ UNCHANGED <<bots, fjOffered, viewVars, callVars, loopVars, cycleVars, histVars, fjVars>>

(* ------------------------------ findjob ------------------------------- *)
\* The adapters findjob tries for a source selector, each one only while
\* `jobs` is still empty (the if/elif chain and its `if not jobs:` steps).
AutoOrder == <<"remotive", "remoteok", "weworkremotely", "onlinejobs">>

\* (variant for C10: weworkremotely given the remoteok fallback too)
FallbackChain_wwr_cascades(source) ==
    CASE source = <<"remotive">> -> <<"remotive", "remoteok">>
      [] source = <<"remoteok">> -> <<"remoteok">>
      [] source = <<"onlinejobs">> -> <<"onlinejobs", "remoteok">>
      [] source = <<"weworkremotely">> -> <<"weworkremotely", "remoteok">>
      [] source = <<"flexjobs">> -> <<"flexjobs">>
      [] source = <<"jobstreet">> -> <<"jobstreet">>
      [] source = <<"upwork">> -> <<"upwork">>
      [] OTHER -> <<"remotive", "remoteok", "weworkremotely", "onlinejobs">>

FallbackChain(source) ==
    CASE source = <<"remotive">> -> <<"remotive", "remoteok">>
      [] source = <<"remoteok">> -> <<"remoteok">>
      [] source = <<"onlinejobs">> -> <<"onlinejobs", "remoteok">>
      [] source = <<"weworkremotely">> -> <<"weworkremotely">>
      [] source = <<"flexjobs">> -> <<"flexjobs">>
      [] source = <<"jobstreet">> -> <<"jobstreet">>
      [] source = <<"upwork">> -> <<"upwork">>
      [] OTHER -> AutoOrder

\* The message findjob sends when an adapter call raises: the
\* `except aiohttp.ClientResponseError` and `except Exception` clauses.
ErrorReport(kind) ==
    IF kind = "ClientResponseError" THEN "api_unavailable" ELSE "unexpected_error"

\* /findjob is run, with a source selector or with the option left out
\* (`source: str | None = DEFAULT_SOURCE`).
FindjobStart ==
    /\ fjPc \in {"idle", "done"}
    /\ \E source \in fjOffered :
         fjSource' = IF source = Omitted THEN DEFAULT_SOURCE ELSE source
    /\ fjPc' = "call"
    /\ fjCalls' = <<>>
    /\ fjResps' = <<>>
    /\ fjJobs' = <<>>
    /\ fjOutcome' = "none"
    /\ UNCHANGED <<bots, fjOffered, viewVars, callVars, dbVars, loopVars, cycleVars, histVars>>

\* (variant for C19: findjob records the jobs it shows as seen)
FindjobCall_marks ==
    /\ fjPc = "call"
    /\ LET chain == FallbackChain(fjSource)
           name == chain[Len(fjCalls) + 1]
       IN  \E r \in Responses :
             LET out == Invoke(name, r, MAX_RESULTS)
             IN  /\ fjCalls' = Append(fjCalls, name)
                 /\ fjResps' = Append(fjResps, r)
                 /\ fjJobs' = out.jobs
                 /\ IF out.raised
                    THEN fjPc' = "done" /\ fjOutcome' = ErrorReport(out.error)
                    ELSE IF out.jobs # <<>>
                    THEN fjPc' = "done" /\ fjOutcome' = "results"
                    ELSE IF Len(fjCalls) + 1 = Len(chain)
                    THEN fjPc' = "done" /\ fjOutcome' = "no_jobs"
                    ELSE fjPc' = "call" /\ fjOutcome' = "none"
    /\ seen_job' = seen_job (+) SetToBag(
          {<<row.id, fjJobs'[k]>> : row \in saved_search, k \in 1..Len(fjJobs')}
          \ BagToSet(seen_job))
    /\ UNCHANGED <<bots, fjOffered, viewVars, callVars, fjSource, saved_search, nextId,
                   loopVars, cycleVars, histVars>>

\* One `jobs = await fetch_jobs_...(...)` of the try block, and what
\* follows it when it raised, returned jobs, or was the last of the chain.
FindjobCall ==
    /\ fjPc = "call"
    /\ LET chain == FallbackChain(fjSource)
           name == chain[Len(fjCalls) + 1]
       IN  \E r \in Responses :
             LET out == Invoke(name, r, MAX_RESULTS)
             IN  /\ fjCalls' = Append(fjCalls, name)
                 /\ fjResps' = Append(fjResps, r)
                 /\ fjJobs' = out.jobs
                 /\ IF out.raised
                    THEN fjPc' = "done" /\ fjOutcome' = ErrorReport(out.error)
                    ELSE IF out.jobs # <<>>
                    THEN fjPc' = "done" /\ fjOutcome' = "results"
                    ELSE IF Len(fjCalls) + 1 = Len(chain)
                    THEN fjPc' = "done" /\ fjOutcome' = "no_jobs"
                    ELSE fjPc' = "call" /\ fjOutcome' = "none"
    /\ UNCHANGED <<bots, fjOffered, viewVars, callVars, fjSource, dbVars, loopVars, cycleVars, histVars>>

\* The text command !findjob: one call of fetch_jobs_remotive, in no try
\* block, and the list is shown or "No jobs found" is sent.
FindjobText ==
    /\ fjPc \in {"idle", "done"}
    /\ \E r \in Responses :
         LET out == Invoke("remotive", r, TEXT_LIMIT)
         IN  /\ fjCalls' = <<"remotive">>
             /\ fjResps' = <<r>>
             /\ fjJobs' = out.jobs
             /\ fjOutcome' = IF out.raised THEN "command_error"
                             ELSE IF out.jobs = <<>> THEN "no_jobs" ELSE "results"
    /\ fjSource' = NoSource
    /\ fjPc' = "done"
    /\ UNCHANGED <<bots, fjOffered, viewVars, callVars, dbVars, loopVars, cycleVars, histVars>>

Ready == \E b \in Bots : on_ready(b)
Cycle == \E b \in Bots : CycleStart(b)
Fetch == \E b \in Bots : PollFetch(b)
Mark == \E b \in Bots : PollMark(b)
Notify == \E b \in Bots : PollNotify(b)

Next == Ready \/ Cycle \/ Fetch \/ Mark \/ Notify \/ AddSavedSearch \/ RemoveSavedSearch

Spec == Init /\ [][Next]_vars

\* Two bot processes polling one database that holds one saved search.
InitRace ==
    /\ bots = {1, 2}
    /\ saved_search = {[id |-> 1, user_id |-> 1, source |-> <<"remoteok">>]}
    /\ nextId = 2
    /\ seen_job = EmptyBag
    /\ fjOffered = FindSources \cup {Omitted}
    /\ InitBot
    /\ InitFind
    /\ InitCalls
    /\ InitView

NextRace == Ready \/ Cycle \/ Fetch \/ Mark \/ Notify

SpecRace == InitRace /\ [][NextRace]_vars

\* The interactive search alone.
NextFind == FindjobStart \/ FindjobCall

InitFindOnly == Init /\ watch = <<1, WatchedJob>>

SpecFind == InitFindOnly /\ [][NextFind]_vars


\* Each adapter called on its own, on every payload up to MaxPage listings
\* and with every limit up to MaxLimit.
AllAdapters == AdapterNames \cup {"rss"}
RawPages == SeqsUpTo(RawItems, MaxPage)
AltPages == {<<>>, <<"b">>, <<"notitle">>}
AdapterResponses ==
    [status : {"timeout", "http_error"}, page : {<<>>}, alt : {<<>>}]
    \cup [status : {"ok"}, page : RawPages, alt : AltPages]

InitAdapter ==
    /\ bots = {1}
    /\ fjOffered = FindSources \cup {Omitted}
    /\ InitDb /\ InitBot /\ InitFind /\ InitView
    /\ watch = <<1, WatchedJob>>
    /\ adCall \in [name : AllAdapters, resp : AdapterResponses, limit : 0..MaxLimit]
    /\ adOut = Pending
    /\ dbCall = NoDbCall
    /\ dbRet = "none"
    /\ cascaded = 0

\* jobs = await fetch_jobs_x(session, ..., limit=limit)
AdapterCall ==
    /\ adOut.error = "pending"
    /\ adCall.name # "none"
    /\ adOut' = FetchRecords(adCall.name, adCall.resp, adCall.limit)
    /\ UNCHANGED <<bots, fjOffered, viewVars, dbVars, loopVars, cycleVars, histVars, fjVars,
                   adCall, dbCall, dbRet, cascaded>>

NextAdapter == AdapterCall

SpecAdapter == InitAdapter /\ [][NextAdapter]_vars

\* The functions of db.py called on their own, by any user, on any search
\* id and any job.
DbCall(op, id, user, job) == [op |-> op, id |-> id, user |-> user, job |-> job]

StoreAdd ==
    /\ \E u \in Users :
         /\ add_saved_search(u, <<"remoteok">>)
         /\ dbCall' = DbCall("add", nextId, u, "")
    /\ dbRet' = "id"
    /\ UNCHANGED <<bots, fjOffered, viewVars, loopVars, cycleVars, histVars, fjVars,
                   adCall, adOut, cascaded>>

StoreRemove ==
    /\ \E id \in 1..MaxSearches, u \in Users :
         /\ remove_saved_search(id, u)
         /\ dbCall' = DbCall("remove", id, u, "")
         /\ dbRet' = IF remove_result(id, u) THEN "true" ELSE "false"
    /\ cascaded' = cascaded + BagCardinality(seen_job) - BagCardinality(seen_job')
    /\ UNCHANGED <<bots, fjOffered, viewVars, loopVars, cycleVars, histVars, fjVars,
                   adCall, adOut>>

StoreMark ==
    /\ \E id \in 1..MaxSearches, j \in JobIds :
         /\ seen_job' = IF InsertOutcome(id, j) = "inserted"
                        THEN seen_job (+) SetToBag({<<id, j>>}) ELSE seen_job
         /\ dbCall' = DbCall("mark", id, 0, j)
         /\ dbRet' = mark_job_seen(id, j)
    /\ UNCHANGED <<bots, fjOffered, viewVars, saved_search, nextId, loopVars, cycleVars,
                   histVars, fjVars, adCall, adOut, cascaded>>

NextStore == StoreAdd \/ StoreRemove \/ StoreMark

InitStore == Init /\ watch = <<1, WatchedJob>>

SpecStore == InitStore /\ [][NextStore]_vars

\* One bot polling one saved search while users run the interactive
\* searches on the source that search is saved with.
InitShown ==
    /\ bots = {1}
    /\ fjOffered = PollSources
    /\ saved_search = {[id |-> 1, user_id |-> 1, source |-> <<"remoteok">>]}
    /\ nextId = 2
    /\ seen_job = EmptyBag
    /\ InitBot
    /\ watch = <<1, WatchedJob>>
    /\ InitFind
    /\ InitCalls
    /\ InitView

NextShown ==
    \/ Ready \/ Cycle \/ Fetch \/ Mark \/ Notify
    \/ FindjobStart \/ FindjobCall \/ FindjobText

SpecShown == InitShown /\ [][NextShown]_vars

\* The scheduling the code has: tasks.loop fires the timer of a live loop
\* task, and an await of a running cycle comes back.  Nothing obliges
\* on_ready to run again (it runs when the gateway session is set up) or
\* the owners to add or remove a search.
SpecLive ==
    /\ Init
    /\ [][Next]_vars
    /\ WF_vars(Cycle) /\ WF_vars(Fetch) /\ WF_vars(Mark) /\ WF_vars(Notify)

(* -------------------------- JobPaginationView ------------------------- *)
Max(a, b) == IF a >= b THEN a ELSE b

\* jobs[start:end] of Python for 0 <= start <= end.
PySlice(q, start, end) == SubSeq(q, Min(start, Len(q)) + 1, Min(end, Len(q)))

\* build_jobs_embed: the jobs listed on page `page`; when the slice is
\* empty the embed says "No jobs found for your query."
slice_jobs(js, page) == PySlice(js, page * JOBS_PER_PAGE, page * JOBS_PER_PAGE + JOBS_PER_PAGE)

update_buttons(v) ==
    [v EXCEPT !.prev_disabled = (v.page = 0),
              !.next_disabled = ((v.page + 1) * JOBS_PER_PAGE >= Max(1, Len(v.jobs)))]

\* JobPaginationView.__init__
JobPaginationView(js, author_id) ==
    update_buttons([jobs |-> js, page |-> 0, author_id |-> author_id,
                    prev_disabled |-> FALSE, next_disabled |-> FALSE])

\* The view after the callback on_prev / on_next ran for an interaction of
\* `user`: another user than the author gets an ephemeral refusal.
on_prev(v, user) ==
    IF user # v.author_id THEN v
    ELSE update_buttons([v EXCEPT !.page = Max(0, v.page - 1)])

on_next(v, user) ==
    IF user # v.author_id THEN v
    ELSE update_buttons([v EXCEPT !.page = v.page + 1])

\* interaction.response.edit_message(embed=..., view=self): the message
\* shows the buttons as the view has them now.
Rendered(v) == [prev |-> v.prev_disabled, next |-> v.next_disabled]

\* A user presses a button that the message shows enabled; the interaction
\* is on its way to the bot.
Click ==
    /\ Len(clicks) < MaxClicks
    /\ \E btn \in {"prev", "next"}, u \in Users :
         /\ ~shown[btn]
         /\ clicks' = Append(clicks, [btn |-> btn, user |-> u])
    /\ UNCHANGED <<bots, fjOffered, dbVars, loopVars, cycleVars, histVars, fjVars,
                   callVars, view, shown>>

\* The bot handles the oldest interaction: the button's callback runs.
Callback(btn) ==
    /\ clicks # <<>>
    /\ Head(clicks).btn = btn
    /\ view' = IF btn = "prev" THEN on_prev(view, Head(clicks).user)
               ELSE on_next(view, Head(clicks).user)
    /\ shown' = IF Head(clicks).user = view.author_id THEN Rendered(view') ELSE shown
    /\ clicks' = Tail(clicks)
    /\ UNCHANGED <<bots, fjOffered, dbVars, loopVars, cycleVars, histVars, fjVars,
                   callVars>>

OnPrev == Callback("prev")
OnNext == Callback("next")

\* A result message has been posted: findjob and the text command create
\* the view only for a non-empty job list.
InitViewPosted ==
    /\ bots = {1}
    /\ fjOffered = FindSources \cup {Omitted}
    /\ InitDb /\ InitBot /\ InitFind /\ InitCalls
    /\ watch = <<1, WatchedJob>>
    /\ \E n \in 1..MaxJobs, author \in Users :
         view = JobPaginationView([k \in 1..n |-> k], author)
    /\ shown = Rendered(view)
    /\ clicks = <<>>

NextView == Click \/ OnPrev \/ OnNext

SpecView == InitViewPosted /\ [][NextView]_vars

(* ============================== claims ================================ *)
SearchIds == {row.id : row \in saved_search}
InCycle(b) == pc[b] \in {"fetch", "mark", "notify"}
CycleThrough(b) == si[b] > Len(searches[b])

\* C1: a (search id, job unique_id) pair causes at most one notification,
\* however many poll cycles fetch the job again: the pair is reported newly
\* seen at most once, a notification is attempted only for a pair just
\* reported newly seen and not notified before, and is never sent twice.
C1_NotifiedAtMostOnce ==
    /\ markTrue <= 1
    /\ sent <= markTrue
    /\ \A b \in bots :
         pc[b] = "notify" /\ CurrentPair(b) = watch => markTrue = 1 /\ sent = 0

\* C1 witness: the pair was notified once; a later cycle has fetched the
\* job again at the head of the list, was answered False by mark_job_seen,
\* and is at the next job without a second notification.
C1_Witness ==
    /\ sent = 1
    /\ markTrue = 1
    /\ markFalse
    /\ pc[1] = "mark" /\ ji[1] = 2
    /\ searches[1][si[1]].id = watch[1]
    /\ jobs[1][1] = watch[2] /\ jobs[1][2] # watch[2]

\* A step of bot b that is its call of mark_job_seen.
MarkStep(b) == pc[b] = "mark" /\ <<pc[b], si[b], ji[b]>>' # <<pc[b], si[b], ji[b]>>

\* C2: for a search that exists, mark_job_seen returns True exactly when the
\* pair is not yet stored and False, without raising, when it is; afterwards
\* the store holds the pair exactly once.
C2_MarkSeenFirstTimeOnly ==
    [][\A b \in bots :
         MarkStep(b) /\ CurrentPair(b)[1] \in SearchIds =>
           /\ pc'[b] # "stopped"
           /\ (pc'[b] = "notify") <=> ~BagIn(CurrentPair(b), seen_job)
           /\ CopiesIn(CurrentPair(b), seen_job') = 1]_vars

\* C2 witness: the calls for one pair have returned True once and then False.
C2_Witness ==
    /\ markTrue = 1
    /\ markFalse
    /\ BagIn(watch, seen_job)

\* C3: when two pollers race mark_job_seen on one pair, the store holds one
\* seen record for it, exactly one call has returned True (any other call
\* False), and at most one notification is sent.
C3_OneWinner ==
    /\ CopiesIn(watch, seen_job) <= 1
    /\ markTrue = CopiesIn(watch, seen_job)
    /\ markFalse => markTrue = 1
    /\ sent <= 1

\* C3 witness: both pollers were at the same pair; bot 1 won the insert and
\* is about to notify, bot 2 has been answered False.
C3_Witness ==
    /\ pc[1] = "notify" /\ CurrentPair(1) = watch
    /\ pc[2] # "stopped"
    /\ markFalse
    /\ markTrue = 1

\* C4: a fetcher error skips that search only: the cycle has moved on past
\* every search it skipped, and a cycle that skipped a search never ended
\* on the fetcher's error.
C4_FetchErrorSkipsOneSearch ==
    \A b \in bots :
      /\ \A i \in 1..Len(searches[b]) : searches[b][i].id \in skipped[b] => i < si[b]
      /\ pc[b] = "stopped" /\ skipped[b] # {} =>
           abortCause[b] \in {"fk_violation", "lookup_failed"}

\* C4 witness: the cycle skipped its first search on a fetcher error, then
\* fetched, marked and notified a job of its second search, and finished.
C4_Witness ==
    /\ Len(searches[1]) = 2
    /\ skipped[1] = {searches[1][1].id}
    /\ pc[1] = "idle" /\ CycleThrough(1)
    /\ watch[1] = searches[1][2].id
    /\ sent = 1

\* C5 (as claimed): a failed recipient lookup is ignored for that job, so a
\* cycle in which it happened leaves no job and no search unprocessed.
C5_DeliveryFailureIgnored ==
    \A b \in bots :
      abortCause[b] = "lookup_failed" =>
        ji[b] >= Len(jobs[b]) /\ si[b] >= Len(searches[b])

\* C6 (as claimed): the fault of marking a job for a search deleted during
\* the cycle leaves no other loaded search unprocessed.
C6_DeletedSearchDoesNotAbort ==
    \A b \in bots : abortCause[b] = "fk_violation" => si[b] >= Len(searches[b])

\* C7: each bot has at most one poll loop, Idle or running one cycle, and
\* an on_ready that finds it running starts no second one.
C7_SingleLoop ==
    \A b \in bots :
      /\ loops[b] <= 1
      /\ loops[b] = IF pc[b] = "stopped" THEN 0 ELSE 1

\* C7 witness: on_ready arrived while a cycle was in progress.
C7_Witness ==
    /\ lastReady[1] = "running"
    /\ InCycle(1)
    /\ loops[1] = 1

(* ------------------------- claims on findjob -------------------------- *)
\* What call i of the current findjob gave.
FjOut(i) == Invoke(fjCalls[i], fjResps[i], MAX_RESULTS)
IsPrefix(p, q) == Len(p) <= Len(q) /\ SubSeq(q, 1, Len(p)) = p
\* The source answered 200 with no posting on the page.
NothingListed(r) == r.status = "ok" /\ r.page = <<>> /\ r.alt = <<>>
AutoSelector == fjSource \notin NamedSources

\* C8 (as claimed): under an absent or unrecognised selector findjob calls
\* the adapters in the fixed order, each only after the earlier ones gave
\* nothing, returns the first non-empty list, and when every source has
\* nothing listed calls all four and reports "no jobs found", not a failure.
C8_AutoCascade ==
    fjPc = "done" /\ AutoSelector =>
      /\ IsPrefix(fjCalls, AutoOrder)
      /\ \A i \in 1..(Len(fjCalls) - 1) : FjOut(i).jobs = <<>>
      /\ fjJobs # <<>> => fjOutcome = "results"
      /\ (\A i \in 1..Len(fjResps) : NothingListed(fjResps[i])) =>
           fjCalls = AutoOrder /\ fjOutcome = "no_jobs"

\* C9 (as claimed): an adapter call that raises is treated as an empty
\* result: the search is not reported as failed and ends only when the
\* chain is exhausted or a later adapter returned jobs.
C9_AdapterErrorIsEmpty ==
    fjPc = "done" =>
      /\ fjOutcome \in {"results", "no_jobs"}
      /\ fjOutcome = "no_jobs" => fjCalls = FallbackChain(fjSource)

\* C10: for an exact adapter name findjob calls that adapter first and no
\* other, except remoteok second, which it calls when and only when the
\* selector is remotive or onlinejobs and that adapter returned no job; the
\* list then held is remoteok's.
C10_ExactAdapter ==
    fjSource \in NamedSources =>
      /\ fjCalls # <<>> => fjCalls[1] = fjSource[1]
      /\ Len(fjCalls) <= 2
      /\ Len(fjCalls) = 2 =>
           /\ fjSource[1] \in {"remotive", "onlinejobs"}
           /\ fjCalls[2] = "remoteok"
           /\ ~FjOut(1).raised /\ FjOut(1).jobs = <<>>
           /\ fjJobs = FjOut(2).jobs
      /\ ( /\ fjPc = "done"
           /\ fjSource[1] \in {"remotive", "onlinejobs"}
           /\ ~FjOut(1).raised /\ FjOut(1).jobs = <<>> ) => Len(fjCalls) = 2
      /\ fjPc = "done" /\ Len(fjCalls) = 1 /\ ~FjOut(1).raised => fjJobs = FjOut(1).jobs

\* C10 witness: /findjob source=onlinejobs found nothing there and returned
\* the jobs of remoteok.
C10_Witness ==
    /\ fjPc = "done"
    /\ fjSource = <<"onlinejobs">>
    /\ fjCalls = <<"onlinejobs", "remoteok">>
    /\ fjOutcome = "results"
    /\ fjJobs # <<>>

\* C11 (as claimed): the poll cycle obtains its job list as the interactive
\* search does: whatever adapters findjob has invoked for a selector are
\* those the poll cycle invokes for it, and the list findjob ends with is
\* the list the poll cycle gets from the same adapter outcomes.
C11_PollSharesAggregator ==
    fjPc = "done" =>
      /\ IsPrefix(fjCalls, PollChain(fjSource))
      /\ fjOutcome \in {"results", "no_jobs"} =>
           fjJobs = Invoke(PollAdapter(fjSource), fjResps[1], POLL_LIMIT).jobs

\* C12 (as claimed): a selector of the form rss:<url> is routed to the RSS
\* adapter and to no other, by the poll cycle and by findjob alike.
C12_RssRouted ==
    /\ \A source \in fjOffered : IsRss(source) => PollChain(source) = <<"rss">>
    /\ IsRss(fjSource) => \A i \in 1..Len(fjCalls) : fjCalls[i] = "rss"

(* ------------------------ claims on the adapters ---------------------- *)
AdapterRan == adOut.error # "pending"

\* C13 (as claimed): an adapter whose source answers non-2xx, times out,
\* or sends a payload with nothing to extract returns the empty list and
\* does not raise.
C13_AdaptersNeverRaise ==
    AdapterRan /\ (adCall.resp.status # "ok" \/ NothingListed(adCall.resp)) =>
      ~adOut.raised /\ adOut.jobs = <<>>

\* C14 (as claimed): the list an adapter returns is no longer than the
\* limit it was called with, limit 0 included.
C14_AtMostLimit ==
    AdapterRan /\ ~adOut.raised => Len(adOut.jobs) <= adCall.limit

\* C15 (as claimed): every record an adapter returns has a non-empty
\* unique_id, a non-empty title and a non-empty url.
C15_FieldsNonEmpty ==
    \A k \in 1..Len(adOut.jobs) :
      adOut.jobs[k].unique_id # "" /\ adOut.jobs[k].title # "" /\ adOut.jobs[k].url # ""

\* C16 (as claimed): the unique_id of a record is the source-native id of
\* its listing when that is non-empty, else the posting's url when there is
\* one, else the hash of title and company.
C16_UniqueIdPriority ==
    \A k \in 1..Len(adOut.jobs) :
      LET rec == adOut.jobs[k]
          it == Item(rec.raw)
      IN  rec.unique_id =
            IF it.id # "" THEN it.id
            ELSE IF it.url # "" THEN rec.url
            ELSE Md5(it.title \o it.company)

(* ------------------------- claims on the store ------------------------ *)
\* The seen records of the searches other than id are what they were.
OthersKept(id) ==
    \A pr \in BagToSet(seen_job) \cup BagToSet(seen_job') :
      pr[1] # id => CopiesIn(pr, seen_job') = CopiesIn(pr, seen_job)

\* C17: remove_saved_search called by a user who does not own the search
\* returns False and leaves both tables as they were; called by the owner it
\* returns True and removes that search and no other.
C17_RemoveScopedToOwner ==
    [][dbCall'.op = "remove" =>
         LET owned == {row \in saved_search :
                         row.id = dbCall'.id /\ row.user_id = dbCall'.user}
         IN  IF owned = {}
             THEN dbRet' = "false" /\ UNCHANGED <<saved_search, seen_job>>
             ELSE /\ dbRet' = "true"
                  /\ Cardinality(owned) = 1
                  /\ saved_search' = saved_search \ owned
                  /\ OthersKept(dbCall'.id)]_vars

\* C17 witness: a user who does not own an existing search, which has a
\* seen record, has called remove_saved_search for it and got False.
C17_Witness ==
    /\ dbCall.op = "remove"
    /\ dbRet = "false"
    /\ \E row \in saved_search :
         /\ row.id = dbCall.id /\ row.user_id # dbCall.user
         /\ BagIn(<<row.id, WatchedJob>>, seen_job)

\* C18: deleting a saved search removes all its seen records and none of
\* another search; a search created afterwards has an id no seen record
\* carries, so every job marked for it is reported newly seen.
C18_CascadeAndFreshIdentity ==
    [][/\ \A pr \in BagToSet(seen_job') : pr[1] \in {row.id : row \in saved_search'}
       /\ dbCall'.op = "remove" => OthersKept(dbCall'.id)
       /\ dbCall'.op = "add" /\ nextId' # nextId =>
            /\ dbCall'.id \notin {row.id : row \in saved_search}
            /\ \A j \in JobIds : ~BagIn(<<dbCall'.id, j>>, seen_job')
       /\ dbCall'.op = "mark" /\ dbCall'.id \in SearchIds
          /\ (\A pr \in BagToSet(seen_job) : pr[1] # dbCall'.id) => dbRet' = "true"]_vars

\* C18 witness: search 1 was deleted with two seen records, a search was
\* created after it, and marking job a for the new search returned True.
C18_Witness ==
    /\ cascaded = 2
    /\ SearchIds = {2}
    /\ dbCall = DbCall("mark", 2, 0, WatchedJob)
    /\ dbRet = "true"
    /\ BagToSet(seen_job) = {<<2, WatchedJob>>}

(* ------------------ claims on the interactive path and the store ------ *)
\* A step of findjob or of the text command.
InteractiveStep == fjVars' # fjVars
InSeq(x, q) == \E k \in 1..Len(q) : q[k] = x

\* C19: a step of findjob or of the text command leaves the seen records
\* and the saved searches as they were and ends with exactly the list its
\* last adapter call returned, seen or not; the seen records change only in
\* the poll cycle's mark_job_seen step.
C19_InteractiveLeavesSeenStore ==
    [][/\ InteractiveStep =>
            /\ UNCHANGED <<saved_search, nextId, seen_job>>
            /\ fjOutcome' \in {"results", "no_jobs"} =>
                 fjJobs' \in {Invoke(fjCalls'[Len(fjCalls')], fjResps'[Len(fjResps')], n).jobs :
                                n \in {MAX_RESULTS, TEXT_LIMIT}}
       /\ seen_job' # seen_job => \E b \in bots : MarkStep(b)]_vars

\* C19 witness: the watched job has been shown by an interactive search, it
\* is not in the seen store, and the poll cycle, now at that job, is about
\* to get True from mark_job_seen for it.
C19_Witness ==
    /\ fjPc = "done"
    /\ InSeq(WatchedJob, fjJobs)
    /\ pc[1] = "mark"
    /\ CurrentPair(1) = watch
    /\ mark_job_seen(watch[1], watch[2]) = "true"

\* The returned records are, in order, those of the first matches of one
\* list of pattern matches.
RecordsOfMatches(records, matches, limit) ==
    /\ Len(records) = Min(Len(matches), limit)
    /\ \A k \in 1..Len(records) : records[k].raw = matches[k]

\* C20: fetch_jobs_onlinejobs returns the records of the old jobdetails
\* pattern's matches when there are any and of the anchor-wrapping pattern's
\* matches only when the old pattern matches nothing; called with a limit
\* of at least one, as every call site does, it returns the empty list
\* only when neither pattern matches.
C20_OnlinejobsVariantsInTurn ==
    AdapterRan /\ adCall.name = "onlinejobs" =>
      LET old == onlinejobs_old(adCall.resp)
          outer == onlinejobs_outer(adCall.resp)
      IN  /\ ~adOut.raised
          /\ old # <<>> => RecordsOfMatches(adOut.jobs, old, adCall.limit)
          /\ old = <<>> => RecordsOfMatches(adOut.jobs, outer, adCall.limit)
          /\ adCall.limit >= 1 => (adOut.jobs = <<>> <=> old = <<>> /\ outer = <<>>)

\* C20 witness: the page has a listing, the old pattern matches nothing on
\* it, and the record returned is that of the anchor-wrapping pattern's
\* first match.
C20_Witness ==
    /\ AdapterRan /\ adCall.name = "onlinejobs"
    /\ adCall.resp.page # <<>>
    /\ onlinejobs_old(adCall.resp) = <<>>
    /\ adOut.jobs # <<>>
    /\ adOut.jobs[1].raw = onlinejobs_outer(adCall.resp)[1]

(* ----------------------- claims of the last part ---------------------- *)
\* C21 (as claimed): a call of fetch_jobs_upwork requests a feed first and
\* requests the search page only after that, and an answer that is not 200
\* (403 among them) ends the call with the empty list after one request.
C21_UpworkFeedFirst ==
    AdapterRan /\ adCall.name = "upwork" =>
      LET q == upwork_requests(adCall.resp)
      IN  /\ q # <<>> /\ q[1] = "feed"
          /\ \A k \in 1..Len(q) : q[k] = "page" => k > 1
          /\ adCall.resp.status = "http_error" =>
               ~adOut.raised /\ adOut.jobs = <<>> /\ Len(q) = 1

\* Steps of bot b's poll cycle: mark_job_seen returned True and the cycle
\* goes on to the notification; the notification attempt itself.
EnterNotify(b) == pc[b] # "notify" /\ pc'[b] = "notify"
NotifyStep(b) == pc[b] = "notify" /\ pc'[b] # "notify"
SearchExists(id) == \E row \in saved_search : row.id = id

\* The notification of the watched pair has been attempted and nothing was
\* delivered: mark_job_seen returned True for it, no bot stands before its
\* notification, and no message was sent.
WatchedUndelivered ==
    /\ markTrue >= 1
    /\ sent = 0
    /\ \A b \in bots : ~(pc[b] = "notify" /\ CurrentPair(b) = watch)

\* The parts of C22 that do not depend on when the record is looked at: the
\* cycle reaches a notification only through the mark_job_seen step of the
\* same bot that inserted the record of that pair, the pair stays the same
\* until the attempt, and mark_job_seen returns True for the watched pair
\* at most once, so that a pair has one notification attempt at most and an
\* attempt that delivered nothing is never followed by another.
WrittenBeforeNotified ==
    /\ \A b \in bots :
         /\ EnterNotify(b) =>
              /\ MarkStep(b)
              /\ mark_job_seen(CurrentPair(b)[1], CurrentPair(b)[2]) = "true"
              /\ SearchExists(CurrentPair(b)[1])
              /\ BagIn(CurrentPair(b), seen_job')
              /\ ~BagIn(CurrentPair(b), seen_job)
         /\ pc[b] = "notify" /\ pc'[b] = "notify" =>
              <<searches[b], si[b], jobs[b], ji[b]>>' = <<searches[b], si[b], jobs[b], ji[b]>>
    /\ markTrue' <= 1

\* C22 (as claimed): the seen record is written before the notification is
\* attempted, only for a pair this poller has just inserted, a pair whose
\* delivery failed is never notified later, and at every notification
\* attempt the seen record of the pair exists and so does its search.
C22_NotifiedHasSeenRecord ==
    [][/\ WrittenBeforeNotified
       /\ \A b \in bots : NotifyStep(b) =>
            BagIn(CurrentPair(b), seen_job) /\ SearchExists(CurrentPair(b)[1])]_vars

\* C22 (amended): as above, but at the notification attempt the seen record
\* exists unless the search was removed after the record was written.
C22_NotifiedAfterOwnInsert ==
    [][/\ WrittenBeforeNotified
       /\ \A b \in bots : NotifyStep(b) =>
            BagIn(CurrentPair(b), seen_job) \/ ~SearchExists(CurrentPair(b)[1])]_vars

\* C22 witness: the watched pair was marked, its notification was attempted
\* and nothing was delivered, and a later cycle met the pair again and got
\* False from mark_job_seen.
C22_Witness == WatchedUndelivered /\ markFalse

\* An exception left the body of poll_saved_searches in the last cycle of
\* bot b and the loop task has ended.
EscapedError(b) == pc[b] = "stopped" /\ abortCause[b] # "none"

\* C23 (as claimed): after a cycle that an error escaped from, the bot's
\* poll loop eventually starts another cycle; a cycle starts only in a loop
\* task that is alive, so the ended loop is eventually running again.
C23_KeepsCycling ==
    \A b \in Bots : EscapedError(b) ~> (pc[b] # "stopped")

\* The HTML-scraping adapters the extraction pattern of C24 is about, and
\* the listings of the page their pattern matches, in page order.
HtmlAdapters == {"weworkremotely", "flexjobs", "onlinejobs"}
PatternMatches(name, r) ==
    IF name = "onlinejobs"
    THEN IF use_outer(r) THEN onlinejobs_outer(r) ELSE onlinejobs_old(r)
    ELSE SelectSeq(r.page, html_match)

\* C24 (as claimed): on a page with n matched listings an HTML-scraping
\* adapter returns min(n, limit) records, the k-th one built from the
\* k-th matched listing.
C24_OneRecordPerListing ==
    AdapterRan /\ adCall.name \in HtmlAdapters /\ adCall.resp.status = "ok" =>
      LET m == PatternMatches(adCall.name, adCall.resp)
      IN  /\ ~adOut.raised
          /\ Len(adOut.jobs) = Min(Len(m), adCall.limit)
          /\ \A k \in 1..Len(adOut.jobs) :
               adOut.jobs[k] = RecordOf(adCall.name, m[k], adCall.resp)

\* C25: a call mark_job_seen(A, X) leaves what mark_job_seen(B, X) returns
\* as it was for every other search B, and it returns True for an existing
\* search A exactly when the pair <<A, X>> itself is not stored, whatever is
\* stored for the other searches.
C25_SeenPerSearch ==
    [][dbCall'.op = "mark" =>
         /\ \A B \in 1..MaxSearches, X \in JobIds :
              B # dbCall'.id => mark_job_seen(B, X)' = mark_job_seen(B, X)
         /\ SearchExists(dbCall'.id) =>
              (dbRet' = "true" <=> ~BagIn(<<dbCall'.id, dbCall'.job>>, seen_job))
         /\ OthersKept(dbCall'.id)]_vars

\* C25 witness: the watched job is stored for search 1, and marking it for
\* search 2, which another user owns, has just returned True.
C25_Witness ==
    /\ dbCall = DbCall("mark", 2, 0, WatchedJob)
    /\ dbRet = "true"
    /\ BagIn(<<1, WatchedJob>>, seen_job)
    /\ BagIn(<<2, WatchedJob>>, seen_job)
    /\ \E r1, r2 \in saved_search : r1.id = 1 /\ r2.id = 2 /\ r1.user_id # r2.user_id

\* The last page index of a job list: max(0, ceil(len(jobs) / JOBS_PER_PAGE) - 1).
LastPage(js) == Max(0, (Len(js) + JOBS_PER_PAGE - 1) \div JOBS_PER_PAGE - 1)

\* C26 (as claimed): after any callbacks the page index is within
\* 0 .. LastPage, the page displayed of a non-empty list is not empty, and
\* a callback for another user than the author leaves the page as it was.
C26_PageInRange ==
    [][/\ view'.page \in 0..LastPage(view'.jobs)
       /\ view'.jobs # <<>> => slice_jobs(view'.jobs, view'.page) # <<>>
       /\ clicks # <<>> /\ clicks' = Tail(clicks)
          /\ Head(clicks).user # view.author_id => view'.page = view.page]_vars

====
